---- MODULE Spec2Model ----
(***************************************************************************)
(* Model of holoviews/core/io.py: the abstract Exporter, the Pickler       *)
(* exporter and the abstract Archive.                                      *)
(*                                                                         *)
(* Byte strings are sequences of integers 0..255.  pickle.dumps and        *)
(* pickle.loads are modelled opcode by opcode for integers, strings and    *)
(* flat lists, under protocols 0, 1 and 2.  The interpreter and platform   *)
(* the module runs on decide what open(path, 'w') does with the bytes      *)
(* pickle.dump hands it: Python 2 on POSIX writes them unchanged, Python 2 *)
(* on Windows translates every LF to CR LF, Python 3 rejects bytes written *)
(* to a text-mode file with a TypeError.                                   *)
(***************************************************************************)
EXTENDS Integers, Sequences, FiniteSets, TLC

(* ---------------------------- bounds ----------------------------------- *)
MaxListLen == 2
MaxStrLen == 2

(* ------------------------- python objects ------------------------------ *)
IntVals == {1, 10, 258}
Chars == {97, 10}

IntObj(n) == [t |-> "int", i |-> n, s |-> <<>>, items |-> <<>>]
StrObj(cs) == [t |-> "str", i |-> 0, s |-> cs, items |-> <<>>]
ListObj(xs) == [t |-> "list", i |-> 0, s |-> <<>>, items |-> xs]
FuncObj == [t |-> "func", i |-> 0, s |-> <<>>, items |-> <<>>]
MarkObj == [t |-> "mark", i |-> 0, s |-> <<>>, items |-> <<>>]
ErrObj == [t |-> "error", i |-> 0, s |-> <<>>, items |-> <<>>]

SeqsUpTo(S, n) == UNION {[1..k -> S] : k \in 0..n}

ListElems == {IntObj(n) : n \in IntVals} \cup {FuncObj}

Objects ==
    {IntObj(n) : n \in IntVals}
    \cup {StrObj(cs) : cs \in SeqsUpTo(Chars, MaxStrLen)}
    \cup {ListObj(xs) : xs \in SeqsUpTo(ListElems, MaxListLen)}
    \cup {FuncObj}

RECURSIVE Picklable(_)
Picklable(o) ==
    CASE o.t = "func" -> FALSE
      [] o.t = "list" -> \A k \in 1..Len(o.items) : Picklable(o.items[k])
      [] OTHER -> TRUE

(* A plain-data object: numbers, strings and lists of them. *)
PlainData(o) == Picklable(o)

(* --------------------------- pickle opcodes ---------------------------- *)
MARK == 40
STOP == 46
INT == 73
BININT == 74
BININT1 == 75
BININT2 == 77
STRING_OP == 83
SHORT_BINSTRING == 85
UNICODE == 86
BINUNICODE == 88
APPEND == 97
APPENDS == 101
LIST == 108
EMPTY_LIST == 93
PUT == 112
BINPUT == 113
PROTO == 128
NL == 10
CR == 13
BACKSLASH == 92
QUOTE == 39

Protocols == {0, 1, 2}

RECURSIVE Digits(_)
Digits(n) == IF n < 10 THEN <<48 + n>> ELSE Digits(n \div 10) \o <<48 + (n % 10)>>

RECURSIVE ParseDigits(_)
ParseDigits(ds) ==
    IF Len(ds) = 0 THEN 0
    ELSE 10 * ParseDigits(SubSeq(ds, 1, Len(ds) - 1)) + (ds[Len(ds)] - 48)

(* struct.pack("<i", n) for 0 <= n < 2^31 *)
Pack4(n) == <<n % 256, (n \div 256) % 256, (n \div 65536) % 256, (n \div 16777216) % 256>>
Unpack4(b) == b[1] + 256 * b[2] + 65536 * b[3] + 16777216 * b[4]

(* repr() of a Python 2 str, without the quotes *)
RECURSIVE StringEscape(_)
StringEscape(cs) ==
    IF Len(cs) = 0 THEN <<>>
    ELSE (CASE cs[1] = NL -> <<BACKSLASH, 110>>
            [] cs[1] = BACKSLASH -> <<BACKSLASH, BACKSLASH>>
            [] cs[1] = QUOTE -> <<BACKSLASH, QUOTE>>
            [] OTHER -> <<cs[1]>>) \o StringEscape(Tail(cs))

RECURSIVE StringUnescape(_)
StringUnescape(bs) ==
    IF Len(bs) = 0 THEN <<>>
    ELSE IF bs[1] = BACKSLASH /\ Len(bs) >= 2
         THEN <<(IF bs[2] = 110 THEN NL ELSE bs[2])>> \o StringUnescape(SubSeq(bs, 3, Len(bs)))
         ELSE <<bs[1]>> \o StringUnescape(Tail(bs))

HexDigit(d) == IF d < 10 THEN 48 + d ELSE 87 + d
HexVal(c) == IF c >= 97 THEN c - 87 ELSE c - 48

(* the raw-unicode-escape form Python 3 writes after the UNICODE opcode *)
RECURSIVE RawUnicodeEscape(_)
RawUnicodeEscape(cs) ==
    IF Len(cs) = 0 THEN <<>>
    ELSE (IF cs[1] \in {NL, BACKSLASH}
          THEN <<BACKSLASH, 117, 48, 48, HexDigit(cs[1] \div 16), HexDigit(cs[1] % 16)>>
          ELSE <<cs[1]>>) \o RawUnicodeEscape(Tail(cs))

RECURSIVE RawUnicodeUnescape(_)
RawUnicodeUnescape(bs) ==
    IF Len(bs) = 0 THEN <<>>
    ELSE IF bs[1] = BACKSLASH /\ Len(bs) >= 6 /\ bs[2] = 117
         THEN <<4096 * HexVal(bs[3]) + 256 * HexVal(bs[4]) + 16 * HexVal(bs[5]) + HexVal(bs[6])>>
              \o RawUnicodeUnescape(SubSeq(bs, 7, Len(bs)))
         ELSE <<bs[1]>> \o RawUnicodeUnescape(Tail(bs))

(* ------------------------------ pickling ------------------------------- *)
(* Pickler.put: the opcode that stores the top of the stack in memo slot i *)
Put(i, proto) ==
    IF proto >= 1 THEN <<BINPUT, i>> ELSE <<PUT>> \o Digits(i) \o <<NL>>

save_int_swapped(n, proto) ==
    IF proto >= 1 /\ n <= 255 THEN <<BININT1, n>>
    ELSE IF proto >= 1 /\ n <= 65535 THEN <<BININT2, n \div 256, n % 256>>
    ELSE IF proto >= 1 THEN <<BININT>> \o Pack4(n)
    ELSE <<INT>> \o Digits(n) \o <<NL>>

save_int(n, proto) ==
    IF proto >= 1 /\ n <= 255 THEN <<BININT1, n>>
    ELSE IF proto >= 1 /\ n <= 65535 THEN <<BININT2, n % 256, n \div 256>>
    ELSE IF proto >= 1 THEN <<BININT>> \o Pack4(n)
    ELSE <<INT>> \o Digits(n) \o <<NL>>

save_string(cs, proto, py) ==
    (IF py = "py2"
     THEN IF proto >= 1 THEN <<SHORT_BINSTRING, Len(cs)>> \o cs
          ELSE <<STRING_OP, QUOTE>> \o StringEscape(cs) \o <<QUOTE, NL>>
     ELSE IF proto >= 1 THEN <<BINUNICODE>> \o Pack4(Len(cs)) \o cs
          ELSE <<UNICODE>> \o RawUnicodeEscape(cs) \o <<NL>>)
    \o Put(0, proto)

(* Pickler.save for one element of a list: the bytes it emits, or failure *)
save_item(o, proto) ==
    IF o.t = "int" THEN [ok |-> TRUE, out |-> save_int(o.i, proto)]
    ELSE [ok |-> FALSE, out |-> <<>>]

(* The elements of a list saved one after the other; sep follows each     *)
(* element.  Emission stops at the first element that cannot be pickled.  *)
RECURSIVE save_items(_, _, _)
save_items(xs, proto, sep) ==
    IF Len(xs) = 0 THEN [ok |-> TRUE, out |-> <<>>]
    ELSE LET h == save_item(xs[1], proto) IN
         IF ~h.ok THEN [ok |-> FALSE, out |-> <<>>]
         ELSE LET r == save_items(Tail(xs), proto, sep) IN
              [ok |-> r.ok, out |-> h.out \o sep \o r.out]

batch_appends(xs, proto) ==
    IF proto = 0 THEN save_items(xs, proto, <<APPEND>>)
    ELSE IF Len(xs) > 1
         THEN LET r == save_items(xs, proto, <<>>) IN
              [ok |-> r.ok, out |-> <<MARK>> \o r.out \o (IF r.ok THEN <<APPENDS>> ELSE <<>>)]
         ELSE IF Len(xs) = 1
              THEN LET r == save_item(xs[1], proto) IN
                   [ok |-> r.ok, out |-> r.out \o (IF r.ok THEN <<APPEND>> ELSE <<>>)]
              ELSE [ok |-> TRUE, out |-> <<>>]

save_list(xs, proto) ==
    LET r == batch_appends(xs, proto) IN
    [ok |-> r.ok,
     out |-> (IF proto >= 1 THEN <<EMPTY_LIST>> ELSE <<MARK, LIST>>) \o Put(0, proto) \o r.out]

save(o, proto, py) ==
    CASE o.t = "int" -> [ok |-> TRUE, out |-> save_int(o.i, proto)]
      [] o.t = "str" -> [ok |-> TRUE, out |-> save_string(o.s, proto, py)]
      [] o.t = "list" -> save_list(o.items, proto)
      [] OTHER -> [ok |-> FALSE, out |-> <<>>]

(* Pickler.dump: everything written to the output up to STOP, or up to    *)
(* the point where an element that cannot be pickled raises PicklingError *)
dump(o, proto, py) ==
    LET r == save(o, proto, py) IN
    [ok |-> r.ok,
     out |-> (IF proto >= 2 THEN <<PROTO, proto>> ELSE <<>>) \o r.out
             \o (IF r.ok THEN <<STOP>> ELSE <<>>)]

(* ----------------------------- unpickling ------------------------------ *)
RECURSIVE IndexOf(_, _, _)
IndexOf(b, pos, c) ==
    IF pos > Len(b) THEN 0 ELSE IF b[pos] = c THEN pos ELSE IndexOf(b, pos + 1, c)

RECURSIVE LastMark(_, _)
LastMark(stack, k) ==
    IF k = 0 THEN 0 ELSE IF stack[k].t = "mark" THEN k ELSE LastMark(stack, k - 1)

RECURSIVE load(_, _, _)
load(b, pos, stack) ==
    IF pos > Len(b) THEN ErrObj
    ELSE LET op == b[pos]
             n == Len(stack)
             eol == IndexOf(b, pos + 1, NL)
             line == SubSeq(b, pos + 1, eol - 1)
             m == LastMark(stack, n)
         IN
         CASE op = PROTO -> load(b, pos + 2, stack)
           [] op = STOP -> IF n = 0 THEN ErrObj ELSE stack[n]
           [] op = INT ->
                IF eol = 0 THEN ErrObj
                ELSE load(b, eol + 1, Append(stack, IntObj(ParseDigits(line))))
           [] op = BININT1 -> load(b, pos + 2, Append(stack, IntObj(b[pos + 1])))
           [] op = BININT2 ->
                load(b, pos + 3, Append(stack, IntObj(b[pos + 1] + 256 * b[pos + 2])))
           [] op = BININT ->
                load(b, pos + 5, Append(stack, IntObj(Unpack4(SubSeq(b, pos + 1, pos + 4)))))
           [] op = STRING_OP ->
                IF eol = 0 \/ Len(line) < 2 THEN ErrObj
                ELSE load(b, eol + 1,
                          Append(stack, StrObj(StringUnescape(SubSeq(line, 2, Len(line) - 1)))))
           [] op = SHORT_BINSTRING ->
                load(b, pos + 2 + b[pos + 1],
                     Append(stack, StrObj(SubSeq(b, pos + 2, pos + 1 + b[pos + 1]))))
           [] op = UNICODE ->
                IF eol = 0 THEN ErrObj
                ELSE load(b, eol + 1, Append(stack, StrObj(RawUnicodeUnescape(line))))
           [] op = BINUNICODE ->
                LET len == Unpack4(SubSeq(b, pos + 1, pos + 4)) IN
                load(b, pos + 5 + len, Append(stack, StrObj(SubSeq(b, pos + 5, pos + 4 + len))))
           [] op = PUT -> IF eol = 0 THEN ErrObj ELSE load(b, eol + 1, stack)
           [] op = BINPUT -> load(b, pos + 2, stack)
           [] op = MARK -> load(b, pos + 1, Append(stack, MarkObj))
           [] op = EMPTY_LIST -> load(b, pos + 1, Append(stack, ListObj(<<>>)))
           [] op = LIST ->
                IF m = 0 THEN ErrObj
                ELSE load(b, pos + 1,
                          Append(SubSeq(stack, 1, m - 1), ListObj(SubSeq(stack, m + 1, n))))
           [] op = APPEND ->
                IF n < 2 \/ stack[n - 1].t # "list" THEN ErrObj
                ELSE load(b, pos + 1,
                          Append(SubSeq(stack, 1, n - 2),
                                 ListObj(Append(stack[n - 1].items, stack[n]))))
           [] op = APPENDS ->
                IF m < 2 \/ stack[m - 1].t # "list" THEN ErrObj
                ELSE load(b, pos + 1,
                          Append(SubSeq(stack, 1, m - 2),
                                 ListObj(stack[m - 1].items \o SubSeq(stack, m + 1, n))))
           [] OTHER -> ErrObj

(* pickle.loads *)
loads(b) == load(b, 1, <<>>)

(* ------------------------- platform and files -------------------------- *)
Platforms == {"py2_posix", "py2_windows", "py3"}
Interp(e) == IF e = "py3" THEN "py3" ELSE "py2"

Basenames == {"name"}
PklPath(basename) == basename \o ".pkl"
Files == Basenames \cup {PklPath(b) : b \in Basenames}

OldData == <<111, 108, 100>>
Absent == [exists |-> FALSE, data |-> <<>>]
FileOf(bytes) == [exists |-> TRUE, data |-> bytes]

(* what a file opened with mode 'w' stores for the bytes written to it *)
RECURSIVE text_mode(_, _)
text_mode(e, bytes) ==
    IF e # "py2_windows" \/ Len(bytes) = 0 THEN bytes
    ELSE (IF bytes[1] = NL THEN <<CR, NL>> ELSE <<bytes[1]>>) \o text_mode(e, Tail(bytes))

(* open(path, 'w'): creates or truncates the file and yields a handle, or *)
(* raises IOError and touches nothing                                     *)
open(fsys, hs, path, canOpen) ==
    IF canOpen
    THEN [ok |-> TRUE, fs |-> [fsys EXCEPT ![path] = FileOf(<<>>)], handles |-> hs \cup {path}]
    ELSE [ok |-> FALSE, fs |-> fsys, handles |-> hs]

(* pickle.dumps(obj, protocol): the payload, or PicklingError and no value *)
dumps(o, proto, py) ==
    LET d == dump(o, proto, py) IN
    [ok |-> d.ok, data |-> IF d.ok THEN d.out ELSE <<>>]

(* pickle.dump(obj, f, protocol) on a text-mode file f: the bytes that     *)
(* reach f and how the call ends.  The Python 2 pickler writes opcode by   *)
(* opcode, so what precedes a PicklingError is already in the file; the    *)
(* Python 3 pickler hands f the whole payload in one write of bytes, which *)
(* a text-mode file refuses.                                               *)
pickle_dump(o, proto, e) ==
    LET d == dump(o, proto, Interp(e)) IN
    IF ~d.ok THEN [outcome |-> "PicklingError",
                   written |-> IF e = "py3" THEN <<>> ELSE d.out]
    ELSE IF e = "py3" THEN [outcome |-> "TypeError", written |-> <<>>]
    ELSE [outcome |-> "ok", written |-> d.out]

(* ------------------------------ Exporter ------------------------------- *)
NoRet == <<>>

Exporter_call(self, o, fmt) ==
    [outcome |-> "NotImplementedError", ret |-> NoRet, self |-> self]

Exporter_save(self, o, basename, fmt, fsys, hs) ==
    [outcome |-> "NotImplementedError", self |-> self, fs |-> fsys, handles |-> hs]

(* ------------------------------- Pickler ------------------------------- *)
DefaultProtocol == 2

MetaKeys == {"file-ext", "size", "mime-type"}

Metadata_short(data) ==
    [k \in MetaKeys |->
        CASE k = "file-ext" -> "pkl"
          [] k = "size" -> Len(data) - 1
          [] k = "mime-type" -> "application/python-pickle"]

Metadata(data) ==
    [k \in MetaKeys |->
        CASE k = "file-ext" -> "pkl"
          [] k = "size" -> Len(data)
          [] k = "mime-type" -> "application/python-pickle"]

(* pickle.dumps(obj) without the protocol argument: protocol 0 *)
Pickler_call_default_protocol(self, o, e) ==
    LET d == dumps(o, 0, Interp(e)) IN
    IF d.ok THEN [outcome |-> "ok", ret |-> <<d.data, Metadata(d.data)>>, self |-> self]
    ELSE [outcome |-> "PicklingError", ret |-> NoRet, self |-> self]

(* the error of the serialization routine swallowed, the bytes so far returned *)
Pickler_call_partial(self, o, e) ==
    LET d == dump(o, self.protocol, Interp(e)) IN
    [outcome |-> "ok", ret |-> <<d.out, Metadata(d.out)>>, self |-> self]

Pickler_call(self, o, e) ==
    LET d == dumps(o, self.protocol, Interp(e)) IN
    IF d.ok THEN [outcome |-> "ok", ret |-> <<d.data, Metadata(d.data)>>, self |-> self]
    ELSE [outcome |-> "PicklingError", ret |-> NoRet, self |-> self]

(* f = open(...); pickle.dump(...); f.close() without the with statement *)
Pickler_save_leak(self, o, basename, fsys, hs, canOpen, e) ==
    LET path == PklPath(basename)
        f == open(fsys, hs, path, canOpen)
        w == pickle_dump(o, self.protocol, e)
    IN
    IF ~f.ok
    THEN [outcome |-> "IOError", self |-> self, fs |-> fsys, handles |-> hs,
          dumped |-> FALSE, written |-> <<>>]
    ELSE [outcome |-> w.outcome, self |-> self,
          fs |-> [f.fs EXCEPT ![path] = FileOf(text_mode(e, w.written))],
          handles |-> IF w.outcome = "ok" THEN f.handles \ {path} ELSE f.handles,
          dumped |-> TRUE, written |-> w.written]

(* save that leaves the exporter at protocol 0 *)
Pickler_save_sets_protocol(self, o, basename, fsys, hs, canOpen, e) ==
    LET path == PklPath(basename)
        f == open(fsys, hs, path, canOpen)
        w == pickle_dump(o, self.protocol, e)
    IN
    IF ~f.ok
    THEN [outcome |-> "IOError", self |-> self, fs |-> fsys, handles |-> hs,
          dumped |-> FALSE, written |-> <<>>]
    ELSE [outcome |-> w.outcome, self |-> [self EXCEPT !.protocol = 0],
          fs |-> [f.fs EXCEPT ![path] = FileOf(text_mode(e, w.written))],
          handles |-> f.handles \ {path},
          dumped |-> TRUE, written |-> w.written]

(* data = pickle.dumps(obj) first, the file opened only afterwards *)
Pickler_save_dump_first(self, o, basename, fsys, hs, canOpen, e) ==
    LET path == PklPath(basename)
        d == dump(o, self.protocol, Interp(e))
        f == open(fsys, hs, path, canOpen)
        w == pickle_dump(o, self.protocol, e)
    IN
    IF ~d.ok
    THEN [outcome |-> "PicklingError", self |-> self, fs |-> fsys, handles |-> hs,
          dumped |-> TRUE, written |-> <<>>]
    ELSE IF ~f.ok
    THEN [outcome |-> "IOError", self |-> self, fs |-> fsys, handles |-> hs,
          dumped |-> TRUE, written |-> <<>>]
    ELSE [outcome |-> w.outcome, self |-> self,
          fs |-> [f.fs EXCEPT ![path] = FileOf(text_mode(e, w.written))],
          handles |-> f.handles \ {path},
          dumped |-> TRUE, written |-> w.written]

(* with open(basename+'.pkl', 'w') as f: pickle.dump(obj, f, protocol)     *)
(* The with statement closes f when its body ends, normally or not.        *)
Pickler_save(self, o, basename, fsys, hs, canOpen, e) ==
    LET path == PklPath(basename)
        f == open(fsys, hs, path, canOpen)
        w == pickle_dump(o, self.protocol, e)
    IN
    IF ~f.ok
    THEN [outcome |-> "IOError", self |-> self, fs |-> fsys, handles |-> hs,
          dumped |-> FALSE, written |-> <<>>]
    ELSE [outcome |-> w.outcome, self |-> self,
          fs |-> [f.fs EXCEPT ![path] = FileOf(text_mode(e, w.written))],
          handles |-> f.handles \ {path},
          dumped |-> TRUE, written |-> w.written]

(* ------------------------------- Archive ------------------------------- *)
ExporterValues == {"Exporter", "Pickler"}
Values == ExporterValues \cup {"None", "str"}

(* a parameter declared without a class check *)
ClassSelector_any(v) == TRUE

(* param.ClassSelector(class_=Exporter) with no default: None or an Exporter *)
ClassSelector_accepts(v) == v = "None" \/ v \in ExporterValues

NoArchive == [made |-> FALSE, exporter |-> "None"]

Archive_init(v) ==
    IF ClassSelector_accepts(v)
    THEN [outcome |-> "ok", self |-> [made |-> TRUE, exporter |-> v]]
    ELSE [outcome |-> "ValueError", self |-> NoArchive]

Archive_set_exporter(self, v) ==
    IF ClassSelector_accepts(v)
    THEN [outcome |-> "ok", self |-> [self EXCEPT !.exporter = v]]
    ELSE [outcome |-> "ValueError", self |-> self]

Archive_add(self, o, args) ==
    [outcome |-> "NotImplementedError", self |-> self]

(* export that drops the exporter reference before it raises *)
Archive_export_release(self, args) ==
    [outcome |-> "NotImplementedError", self |-> [self EXCEPT !.exporter = "None"]]

Archive_export(self, args) ==
    [outcome |-> "NotImplementedError", self |-> self]

(* -------------------------------- state -------------------------------- *)
VARIABLES env, obj, pickler, fs, handles, archive, last, calls
vars == <<env, obj, pickler, fs, handles, archive, last, calls>>

(* last: the most recent operation, its arguments and how it ended *)
NoOp == [op |-> "none", outcome |-> "none", ret |-> NoRet, arg |-> "",
         canOpen |-> FALSE, before |-> Absent, dumped |-> FALSE, written |-> <<>>]

Done(op, outcome, ret) == [NoOp EXCEPT !.op = op, !.outcome = outcome, !.ret = ret]

Init ==
    /\ env \in Platforms
    /\ obj \in Objects
    /\ pickler = [protocol |-> DefaultProtocol]
    /\ fs \in {[p \in Files |-> IF p \in S THEN FileOf(OldData) ELSE Absent] :
                 S \in SUBSET {PklPath(b) : b \in Basenames}}
    /\ handles = {}
    /\ archive = NoArchive
    /\ last = NoOp
    /\ calls = <<>>

(* ---------------------------- Pickler actions -------------------------- *)
SetProtocol(p) ==
    /\ pickler' = [pickler EXCEPT !.protocol = p]
    /\ last' = Done("Pickler.protocol", "ok", NoRet)
    /\ UNCHANGED <<env, obj, fs, handles, archive, calls>>

PicklerCall ==
    LET r == Pickler_call(pickler, obj, env) IN
    /\ pickler' = r.self
    /\ last' = Done("Pickler.__call__", r.outcome, r.ret)
    /\ calls' = (IF Len(calls) = 2 THEN Tail(calls) ELSE calls)
                \o <<[protocol |-> pickler.protocol, outcome |-> r.outcome, ret |-> r.ret]>>
    /\ UNCHANGED <<env, obj, fs, handles, archive>>

PicklerSave(basename, canOpen) ==
    LET r == Pickler_save(pickler, obj, basename, fs, handles, canOpen, env) IN
    /\ pickler' = r.self
    /\ fs' = r.fs
    /\ handles' = r.handles
    /\ last' = [op |-> "Pickler.save", outcome |-> r.outcome, ret |-> NoRet,
                arg |-> basename, canOpen |-> canOpen, before |-> fs[PklPath(basename)],
                dumped |-> r.dumped, written |-> r.written]
    /\ UNCHANGED <<env, obj, archive, calls>>

Next ==
    \/ \E p \in Protocols : SetProtocol(p)
    \/ PicklerCall
    \/ \E b \in Basenames, canOpen \in BOOLEAN : PicklerSave(b, canOpen)

Spec == Init /\ [][Next]_vars

(* --------------------- base Exporter / Archive actions ----------------- *)
Formats == {"None", "svg"}
ExtraArgs == {"none", "caption"}

ExporterCall(fmt) ==
    LET r == Exporter_call("Exporter", obj, fmt) IN
    /\ last' = Done("Exporter.__call__", r.outcome, r.ret)
    /\ UNCHANGED <<env, obj, pickler, fs, handles, archive, calls>>

ExporterSave(basename, fmt) ==
    LET r == Exporter_save("Exporter", obj, basename, fmt, fs, handles) IN
    /\ fs' = r.fs
    /\ handles' = r.handles
    /\ last' = [Done("Exporter.save", r.outcome, NoRet) EXCEPT !.arg = basename]
    /\ UNCHANGED <<env, obj, pickler, archive, calls>>

ArchiveNew(v) ==
    LET r == Archive_init(v) IN
    /\ ~archive.made
    /\ archive' = r.self
    /\ last' = [Done("Archive.__init__", r.outcome, NoRet) EXCEPT !.arg = v]
    /\ UNCHANGED <<env, obj, pickler, fs, handles, calls>>

ArchiveSetExporter(v) ==
    LET r == Archive_set_exporter(archive, v) IN
    /\ archive.made
    /\ archive' = r.self
    /\ last' = [Done("Archive.exporter", r.outcome, NoRet) EXCEPT !.arg = v]
    /\ UNCHANGED <<env, obj, pickler, fs, handles, calls>>

ArchiveAdd(args) ==
    LET r == Archive_add(archive, obj, args) IN
    /\ archive.made
    /\ archive' = r.self
    /\ last' = [Done("Archive.add", r.outcome, NoRet) EXCEPT !.arg = args]
    /\ UNCHANGED <<env, obj, pickler, fs, handles, calls>>

ArchiveExport(args) ==
    LET r == Archive_export(archive, args) IN
    /\ archive.made
    /\ archive' = r.self
    /\ last' = [Done("Archive.export", r.outcome, NoRet) EXCEPT !.arg = args]
    /\ UNCHANGED <<env, obj, pickler, fs, handles, calls>>

NextBase ==
    \/ \E fmt \in Formats : ExporterCall(fmt)
    \/ \E b \in Basenames, fmt \in Formats : ExporterSave(b, fmt)
    \/ \E v \in Values : ArchiveNew(v)
    \/ \E v \in Values : ArchiveSetExporter(v)
    \/ \E a \in ExtraArgs : ArchiveAdd(a)
    \/ \E a \in ExtraArgs : ArchiveExport(a)

SpecBase == Init /\ [][NextBase]_vars

(* ------------------------------ properties ----------------------------- *)
PklFile == fs[PklPath(last.arg)]
CalledOk == last.op = "Pickler.__call__" /\ last.outcome = "ok"

(* C1: whenever the object can be pickled under the configured protocol,   *)
(* Pickler's call returns a pair (payload, meta) with meta['size'] the     *)
(* length of payload, meta['mime-type'] 'application/python-pickle' and    *)
(* meta['file-ext'] 'pkl'.                                                 *)
C1_CallMetadata ==
    last.op = "Pickler.__call__" /\ Picklable(obj) =>
        /\ last.outcome = "ok"
        /\ Len(last.ret) = 2
        /\ DOMAIN last.ret[2] = MetaKeys
        /\ last.ret[2]["size"] = Len(last.ret[1])
        /\ last.ret[2]["mime-type"] = "application/python-pickle"
        /\ last.ret[2]["file-ext"] = "pkl"

C1_Witness ==
    /\ CalledOk
    /\ obj.t = "list" /\ Len(obj.items) = MaxListLen
    /\ pickler.protocol = 1
    /\ last.ret[2]["size"] > 3

(* C2: after Pickler.save(o, "name") on an object that call can pickle and *)
(* a path that can be opened, name.pkl exists and holds exactly the        *)
(* payload that call returns for the same object and protocol.             *)
C2_SaveWritesCallPayload ==
    last.op = "Pickler.save" /\ last.canOpen /\ Picklable(obj) =>
        /\ PklFile.exists
        /\ PklFile.data = Pickler_call(pickler, obj, env).ret[1]

(* C3: call and save of the base Exporter and add and export of the base   *)
(* Archive always end with NotImplementedError, return nothing and change  *)
(* no file, no handle, no exporter configuration and no archive state.     *)
BaseOps == {"Exporter.__call__", "Exporter.save", "Archive.add", "Archive.export"}

C3_BaseRaisesWithoutEffect ==
    [][last'.op \in BaseOps =>
          /\ last'.outcome = "NotImplementedError"
          /\ last'.ret = NoRet
          /\ fs' = fs
          /\ handles' = handles
          /\ pickler' = pickler
          /\ archive' = archive]_vars

C3_Witness ==
    /\ last.op = "Archive.export"
    /\ last.outcome = "NotImplementedError"
    /\ archive.made
    /\ archive.exporter = "Pickler"

(* C4: for a plain-data object, unpickling the payload that Pickler's call *)
(* returned gives back a value equal to the object, under every protocol.  *)
C4_RoundTrip ==
    CalledOk /\ PlainData(obj) => loads(last.ret[1]) = obj

C4_Witness ==
    /\ CalledOk
    /\ obj = ListObj(<<IntObj(258), IntObj(10)>>)
    /\ pickler.protocol = 2
    /\ loads(last.ret[1]) = obj

(* C5: when an object is pickled with protocol 2 and then with protocol 0, *)
(* the two payloads differ, each reported size is the length of its own    *)
(* payload, and mime-type and file-ext are the same in both.               *)
C5_ProtocolChangesBytesOnly ==
    (/\ Len(calls) = 2
     /\ calls[1].protocol = DefaultProtocol /\ calls[1].outcome = "ok"
     /\ calls[2].protocol = 0 /\ calls[2].outcome = "ok") =>
        /\ calls[2].ret[1] # calls[1].ret[1]
        /\ calls[1].ret[2]["size"] = Len(calls[1].ret[1])
        /\ calls[2].ret[2]["size"] = Len(calls[2].ret[1])
        /\ calls[2].ret[2]["mime-type"] = calls[1].ret[2]["mime-type"]
        /\ calls[2].ret[2]["file-ext"] = calls[1].ret[2]["file-ext"]

C5_Witness ==
    /\ Len(calls) = 2
    /\ calls[1].protocol = DefaultProtocol /\ calls[1].outcome = "ok"
    /\ calls[2].protocol = 0 /\ calls[2].outcome = "ok"
    /\ pickler.protocol = 0
    /\ obj.t = "str" /\ Len(obj.s) > 0

(* C6: Pickler's call ends in exactly one of two ways: it returns the      *)
(* complete payload with its metadata, or, when the object cannot be       *)
(* pickled, it raises PicklingError and returns nothing.                   *)
C6_NoPartialSuccess ==
    last.op = "Pickler.__call__" =>
        \/ /\ last.outcome = "ok"
           /\ Picklable(obj)
           /\ Len(last.ret) = 2
           /\ Len(last.ret[1]) > 0
           /\ last.ret[1][Len(last.ret[1])] = STOP
           /\ loads(last.ret[1]) = obj
        \/ /\ last.outcome = "PicklingError"
           /\ ~Picklable(obj)
           /\ last.ret = NoRet

C6_Witness ==
    /\ last.op = "Pickler.__call__"
    /\ last.outcome = "PicklingError"
    /\ obj.t = "list" /\ Len(obj.items) = 2
    /\ Picklable(obj.items[1]) /\ ~Picklable(obj.items[2])
    /\ last.ret = NoRet

(* C7: once Pickler.save has ended, normally or with an error, the handle  *)
(* it opened on basename.pkl is closed.                                    *)
C7_HandleClosed ==
    last.op = "Pickler.save" => PklPath(last.arg) \notin handles

C7_Witness ==
    /\ last.op = "Pickler.save"
    /\ last.outcome = "PicklingError"
    /\ last.canOpen
    /\ last.written # <<>>
    /\ handles = {}

(* C8 as stated: a constructed Archive always refers to an Exporter.       *)
C8_ExporterNeverAbsent ==
    archive.made => archive.exporter \in ExporterValues

(* C8: the exporter attribute of a constructed Archive is None or an       *)
(* Exporter instance, never a value of another kind.                       *)
C8_ExporterNoneOrExporter ==
    archive.made => archive.exporter \in ExporterValues \cup {"None"}

C8_Witness ==
    /\ archive.made
    /\ archive.exporter = "Exporter"
    /\ last.op = "Archive.exporter"
    /\ last.arg = "str"
    /\ last.outcome = "ValueError"

(* C9: Pickler's call and save leave the protocol configuration as it was, *)
(* and two calls made under the same protocol on the same object end the   *)
(* same way with the same result.                                          *)
C9_ExporterStateUnchanged ==
    [][/\ last'.op \in {"Pickler.__call__", "Pickler.save"} => pickler' = pickler
       /\ (Len(calls') = 2 /\ calls'[1].protocol = calls'[2].protocol) =>
              calls'[1] = calls'[2]]_vars

C9_Witness ==
    /\ Len(calls) = 2
    /\ calls[1].protocol = calls[2].protocol
    /\ calls[1].outcome = "ok"
    /\ last.op = "Pickler.save"
    /\ last.outcome # "ok"
    /\ pickler.protocol = 1

(* C10: Pickler.save opens the file before it pickles.  When the open      *)
(* fails, save raises IOError, nothing is pickled and no file changes.     *)
(* When the open succeeds and pickling or writing fails, save raises that  *)
(* error, basename.pkl exists and holds only what this save wrote.         *)
C10_OpenBeforeDump ==
    [][last'.op = "Pickler.save" =>
          /\ ~last'.canOpen =>
                /\ last'.outcome = "IOError"
                /\ ~last'.dumped
                /\ fs' = fs
          /\ last'.canOpen /\ last'.outcome # "ok" =>
                /\ last'.outcome \in {"PicklingError", "TypeError"}
                /\ fs'[PklPath(last'.arg)] = FileOf(text_mode(env, last'.written))
                /\ fs'[PklPath(last'.arg)].data # OldData]_vars

C10_Witness ==
    /\ last.op = "Pickler.save"
    /\ last.canOpen
    /\ last.outcome = "PicklingError"
    /\ last.before = FileOf(OldData)
    /\ PklFile.exists
    /\ PklFile.data # OldData
====
